---- MODULE Spec2Model ----
(***************************************************************************)
(* A model of the order matching and risk core of the exchange             *)
(* (exchange_app/matching_engine.py, exchange_app/models.py,               *)
(* exchange_app/util.py).                                                  *)
(*                                                                         *)
(* The store is the pair of tables Order and Trade.  An order's id is its  *)
(* index in the sequence orders, a trade's creation order is its index in  *)
(* the sequence trades.  Time is a logical clock: every read of            *)
(* timezone.now() that is stored in a record returns a fresh tick, so two  *)
(* stored times are equal only when they come from the same read.          *)
(*                                                                         *)
(* Money amounts that involve the market price (the mean of bid and ask)   *)
(* are kept doubled, so that every value is an integer.                    *)
(***************************************************************************)
EXTENDS Integers, Sequences, FiniteSets

VARIABLES
    orders,    \* the Order table: a sequence of order records, index = id
    trades,    \* the Trade table: a sequence of trade records, in creation order
    now,       \* the clock: the value the next read of timezone.now() returns
    resp,      \* the answer of the last operation
    req,       \* the command the last operation handled, where it is kept
    sent,      \* the notifications the last operation gave to notify_clients
    restarts,  \* the trade quantities after which the last operation
               \* restarted matching (line 105), in order
    threads    \* the commands in flight in the worker threads of
               \* run_command: what each has read and where it stands

vars == <<orders, trades, now, resp, req, sent, restarts, threads>>

-----------------------------------------------------------------------------
(* Bounds of the model *)

\* The number of orders submitted in a run of Spec.
MaxOrders == 2

\* The number of orders that get canceled in a run of Spec.
MaxCancels == 1

\* The number of orders submitted in a run of SpecBook.
MaxBookOrders == 3

\* The number of orders submitted in a run of SpecCredit.
MaxCreditOrders == 3

-----------------------------------------------------------------------------
(* Reference data *)

Symbols == {"TEST", "GAME", "DONE", "LOT", "PAST"}

Traders == {"ram", "anu"}

\* exchange_app.models.Instrument: the fields the core reads.
\* add_games.py creates instruments with min_price 0 and unit multipliers;
\* max_price is kept small so that the credit gate decides both ways.
\* TEST is the instrument the commands trade; GAME has the bounds of the
\* instruments of add_games.py and of the tests, 0 and 100; DONE is a
\* settled instrument: settle_game.py has set its close_date past its
\* expiration and its close_price; LOT has multipliers other than 1; PAST
\* has expired and is not settled.
Instrument(sym) ==
    [symbol |-> sym,
     qty_mult |-> IF sym = "LOT" THEN 2 ELSE 1,
     price_mult |-> IF sym = "LOT" THEN 3 ELSE 1,
     min_price |-> 0, max_price |-> IF sym = "GAME" THEN 100 ELSE 3,
     expiration |-> IF sym = "PAST" THEN 0 ELSE 100000,
     settled |-> sym = "DONE",
     close_price |-> IF sym = "DONE" THEN 2 ELSE 0]

\* exchange_app.models.Trader.credit_limit, doubled.
TwiceCreditLimit(trader) == IF trader = "ram" THEN 6 ELSE 200

\* The depth of recursion the interpreter allows matching_engine before it
\* raises RecursionError: sys.getrecursionlimit(), 1000 frames in CPython,
\* scaled down.  The error is raised at the recursive call of line 105.
RecursionLimit == 16

\* exchange.util.long_time_in_future: now + 11000 days.
long_time_in_future(t) == t + 11000

Min(a, b) == IF a <= b THEN a ELSE b

Max(a, b) == IF a >= b THEN a ELSE b

\* int(x) of a number given doubled: truncation towards zero.
IntOfHalves(twice) ==
    IF twice >= 0 THEN twice \div 2 ELSE 0 - ((0 - twice) \div 2)

RECURSIVE SumOver(_, _)
\* The sum of f[x] over the finite set S.
SumOver(f, S) ==
    IF S = {} THEN 0
    ELSE LET x == CHOOSE y \in S : TRUE
         IN f[x] + SumOver(f, S \ {x})

-----------------------------------------------------------------------------
(* matching_engine.py *)

\* IsCandidate without the filter on the status.
IsCandidate_any_status(o, this, t) ==
    /\ o.instrument = this.instrument
    /\ IF this.is_buy THEN o.limit_price <= this.limit_price
                      ELSE o.limit_price >= this.limit_price
    /\ o.is_buy = ~this.is_buy
    /\ o.expiration >= t

\* IsCandidate without the filter on the instrument.
IsCandidate_any_instrument(o, this, t) ==
    /\ IF this.is_buy THEN o.limit_price <= this.limit_price
                      ELSE o.limit_price >= this.limit_price
    /\ o.is_buy = ~this.is_buy
    /\ o.status = "WORKING"
    /\ o.expiration >= t

\* IsCandidate without the filter on the expiration.
IsCandidate_any_expiration(o, this, t) ==
    /\ o.instrument = this.instrument
    /\ IF this.is_buy THEN o.limit_price <= this.limit_price
                      ELSE o.limit_price >= this.limit_price
    /\ o.is_buy = ~this.is_buy
    /\ o.status = "WORKING"

\* The filter of the candidate query (lines 31-36 and 41-46).
IsCandidate(o, this, t) ==
    /\ o.instrument = this.instrument
    /\ IF this.is_buy THEN o.limit_price <= this.limit_price
                      ELSE o.limit_price >= this.limit_price
    /\ o.is_buy = ~this.is_buy
    /\ o.status = "WORKING"
    /\ o.expiration >= t

\* Precedes with the resting sells ordered by begin_time, as the resting buys
\* are.
Precedes_by_begin_time(db, this, a, b) ==
    LET x == db[a]
        y == db[b]
    IN IF x.limit_price # y.limit_price
       THEN IF this.is_buy THEN x.limit_price < y.limit_price
                           ELSE x.limit_price > y.limit_price
       ELSE IF x.begin_time # y.begin_time THEN x.begin_time < y.begin_time
            ELSE a < b

\* Precedes with the resting buys ordered by priority_time, as the resting
\* sells are.
Precedes_by_priority_time(db, this, a, b) ==
    LET x == db[a]
        y == db[b]
    IN IF x.limit_price # y.limit_price
       THEN IF this.is_buy THEN x.limit_price < y.limit_price
                           ELSE x.limit_price > y.limit_price
       ELSE IF x.priority_time # y.priority_time
            THEN x.priority_time < y.priority_time
            ELSE a < b

\* Precedes with the later time first at a price.
Precedes_latest_first(db, this, a, b) ==
    LET x == db[a]
        y == db[b]
        xt == IF this.is_buy THEN x.priority_time ELSE x.begin_time
        yt == IF this.is_buy THEN y.priority_time ELSE y.begin_time
    IN IF x.limit_price # y.limit_price
       THEN IF this.is_buy THEN x.limit_price < y.limit_price
                           ELSE x.limit_price > y.limit_price
       ELSE IF xt # yt THEN xt > yt ELSE a < b

\* order_by('limit_price', 'priority_time') for an incoming buy,
\* order_by('-limit_price', 'begin_time') for an incoming sell; rows equal
\* under the key come in id order.
Precedes(db, this, a, b) ==
    LET x == db[a]
        y == db[b]
        xt == IF this.is_buy THEN x.priority_time ELSE x.begin_time
        yt == IF this.is_buy THEN y.priority_time ELSE y.begin_time
    IN IF x.limit_price # y.limit_price
       THEN IF this.is_buy THEN x.limit_price < y.limit_price
                           ELSE x.limit_price > y.limit_price
       ELSE IF xt # yt THEN xt < yt ELSE a < b

RECURSIVE SortIds(_, _, _)
SortIds(db, this, S) ==
    IF S = {} THEN <<>>
    ELSE LET m == CHOOSE x \in S : \A y \in S \ {x} : Precedes(db, this, x, y)
         IN <<m>> \o SortIds(db, this, S \ {m})

\* The evaluated queryset: the candidates' rows as read at query time, each
\* with its id, in priority order.
matching_orders(db, this, t) ==
    LET ids == SortIds(db, this,
                       {i \in 1..Len(db) : IsCandidate(db[i], this, t)})
    IN [k \in 1..Len(ids) |-> [id |-> ids[k], row |-> db[ids[k]]]]

\* trade_quantity without the cap at the incoming order's remaining quantity.
trade_quantity_avail(avail_qty, my_remaining_qty) == avail_qty

\* Line 56-61: the quantity of the trade.
trade_quantity(avail_qty, my_remaining_qty) ==
    IF avail_qty >= my_remaining_qty THEN my_remaining_qty ELSE avail_qty

\* fill_other replenishing with all that is left, not capped at
\* max_show_size.
fill_other_uncapped(other, qty, t) ==
    LET o1 == [other EXCEPT !.filled_quantity = @ + qty,
                            !.curr_slice = @ - qty]
    IN IF o1.curr_slice = 0
       THEN [o1 EXCEPT !.curr_slice = o1.quantity - o1.filled_quantity,
                       !.priority_time = t]
       ELSE o1

\* fill_other replenishing without the reset of priority_time.
fill_other_keeps_priority(other, qty, t) ==
    LET o1 == [other EXCEPT !.filled_quantity = @ + qty,
                            !.curr_slice = @ - qty]
    IN IF o1.curr_slice = 0
       THEN [o1 EXCEPT !.curr_slice = Min(o1.max_show_size,
                                          o1.quantity - o1.filled_quantity)]
       ELSE o1

\* Lines 64-73: the resting order after the fill, replenished when the
\* displayed slice is used up.
fill_other(other, qty, t) ==
    LET o1 == [other EXCEPT !.filled_quantity = @ + qty,
                            !.curr_slice = @ - qty]
    IN IF o1.curr_slice = 0
       THEN [o1 EXCEPT !.curr_slice = Min(o1.max_show_size,
                                          o1.quantity - o1.filled_quantity),
                       !.priority_time = t]
       ELSE o1

\* Lines 80-83: an order whose filled quantity reached its quantity.
mark_completed(o) ==
    IF o.filled_quantity = o.quantity THEN [o EXCEPT !.status = "COMPLETED"]
    ELSE o

\* new_trade priced at the incoming order's limit.
new_trade_own_price(this, thisId, other, otherId, qty) ==
    [instrument |-> this.instrument,
     quantity |-> qty,
     price |-> this.limit_price,
     buy_order |-> IF this.is_buy THEN thisId ELSE otherId,
     sell_order |-> IF this.is_buy THEN otherId ELSE thisId,
     is_buyer_taker |-> this.is_buy,
     is_valid |-> TRUE]

\* Lines 92-99: the trade record.
new_trade(this, thisId, other, otherId, qty) ==
    [instrument |-> this.instrument,
     quantity |-> qty,
     price |-> other.limit_price,
     buy_order |-> IF this.is_buy THEN thisId ELSE otherId,
     sell_order |-> IF this.is_buy THEN otherId ELSE thisId,
     is_buyer_taker |-> this.is_buy,
     is_valid |-> TRUE]

\* super(Order, this).save(): insert the row of the incoming order the first
\* time, update it afterwards.
Upsert(db, id, row) ==
    IF id <= Len(db) THEN [db EXCEPT ![id] = row] ELSE Append(db, row)

-----------------------------------------------------------------------------
(* util.py: the depth ladder; models.py: the notifications *)

\* Prices are counted in 1/unit: the commands of the exchange model send
\* whole prices (unit 1); the ladder is also computed for books with prices
\* in halves (unit 2), limit_price having four decimal places.

\* int(x) of a number counted in 1/unit: truncation towards zero.
IntOf(x, unit) ==
    IF x >= 0 THEN x \div unit ELSE 0 - ((0 - x) \div unit)

\* The orders get_order_book_data reads (lines 25-31).
LadderOrdersAt(db, sym, t, unit) ==
    {i \in 1..Len(db) : /\ db[i].instrument = sym
                        /\ db[i].expiration >= t
                        /\ db[i].limit_price >= Instrument(sym).min_price * unit
                        /\ db[i].limit_price <= Instrument(sym).max_price * unit
                        /\ db[i].status = "WORKING"}

LadderOrders(db, sym, t) == LadderOrdersAt(db, sym, t, 1)

\* Lines 45-48: the size an order shows.
show_qty(o) ==
    IF o.curr_slice # 0 THEN o.curr_slice
    ELSE Min(o.max_show_size, o.quantity - o.filled_quantity)

\* Lines 32-36: min_price and max_price of a book with the orders ids,
\* counted in 1/unit.
LadderWindow(db, sym, ids, unit) ==
    LET prices == {db[i].limit_price : i \in ids}
        top == CHOOSE p \in prices : \A q \in prices : p >= q
        bottom == CHOOSE p \in prices : \A q \in prices : p <= q
    IN [min_price |-> Max(bottom - 5 * unit, Instrument(sym).min_price * unit),
        max_price |-> Min(Instrument(sym).max_price * unit, top + 5 * unit)]

\* Line 40: the prices of the rows of the ladder before the filter; lines
\* 38-39 when there is no order.
LadderPricesAt(db, sym, ids, unit) ==
    IF ids # {}
    THEN IntOf(LadderWindow(db, sym, ids, unit).min_price, unit)
         ..IntOf(LadderWindow(db, sym, ids, unit).max_price, unit)
    ELSE IntOfHalves(Instrument(sym).max_price + Instrument(sym).min_price - 10)
         ..IntOfHalves(Instrument(sym).max_price + Instrument(sym).min_price + 10)

\* Lines 40 and 50: the price of the row ix = int(price - min_price) of
\* the ladder, whose first row has the price int(min_price).  With
\* min_price >= 0 the index is within the ladder.
LadderRowOf(price, min_price, unit) ==
    IntOf(min_price, unit) + IntOf(price - min_price, unit)

\* Lines 42-55: the row of price p, <<bid size, price, ask size>>.
LadderRowAt(db, ids, min_price, unit, p) ==
    LET buys == {i \in ids : db[i].is_buy
                    /\ LadderRowOf(db[i].limit_price, min_price, unit) = p}
        sells == {i \in ids : ~db[i].is_buy
                    /\ LadderRowOf(db[i].limit_price, min_price, unit) = p}
    IN <<SumOver([i \in buys |-> show_qty(db[i])], buys), p,
         SumOver([i \in sells |-> show_qty(db[i])], sells)>>

\* The rows of the ladder before the filter of line 59.
LadderRows(db, sym, ids, unit) ==
    {LadderRowAt(db, ids, LadderWindow(db, sym, ids, unit).min_price, unit, p) :
        p \in LadderPricesAt(db, sym, ids, unit)}

RECURSIVE SortedDesc(_)
\* Line 61: the rows by price, highest first.
SortedDesc(rows) ==
    IF rows = {} THEN <<>>
    ELSE LET r == CHOOSE x \in rows : \A y \in rows : x[2] >= y[2]
         IN <<r>> \o SortedDesc(rows \ {r})

\* get_order_book_data without the filter of line 59.
get_order_book_data_unfiltered(db, sym, t) ==
    SortedDesc(LadderRows(db, sym, LadderOrders(db, sym, t), 1))

\* get_order_book_data for a book with prices in 1/unit: the rows with a
\* size on a side (line 59), highest price first.
get_order_book_data_at(db, sym, t, unit) ==
    SortedDesc({r \in LadderRows(db, sym, LadderOrdersAt(db, sym, t, unit), unit) :
                  r[1] # 0 \/ r[3] # 0})

\* get_order_book_data(sym)
get_order_book_data(db, sym, t) == get_order_book_data_at(db, sym, t, 1)

\* The Order notification of Order.save (lines 201-216).
OrderNote(id, o) ==
    [type |-> "Order", id |-> id, begin_time |-> o.begin_time,
     symbol |-> o.instrument, trader |-> o.trader, is_buy |-> o.is_buy,
     quantity |-> o.quantity, limit_price |-> o.limit_price,
     filled_quantity |-> o.filled_quantity, curr_slice |-> o.curr_slice,
     max_show_size |-> o.max_show_size, status |-> o.status]

\* The Depth notification of Order.save (lines 217-221).
DepthNote(db, sym, t) ==
    [type |-> "Depth", symbol |-> sym,
     ladder |-> get_order_book_data(db, sym, t)]

\* The Trade notification of Trade.save (lines 251-261).
TradeNote(db, trade) ==
    [type |-> "Trade", buyer |-> db[trade.buy_order].trader,
     seller |-> db[trade.sell_order].trader, symbol |-> trade.instrument,
     is_buy |-> trade.is_buyer_taker, quantity |-> trade.quantity,
     price |-> trade.price]

\* What Order.save gives to notify_clients after it wrote row id.
SaveNotes(db, id, t) ==
    <<OrderNote(id, db[id]), DepthNote(db, db[id].instrument, t)>>

RECURSIVE MatchLoop(_, _, _, _, _)
RECURSIVE matching_engine(_, _)

\* Lines 106-110: the call that ends the matching sets the displayed slice
\* of the incoming order.
SetCurrSlice(m) ==
    [m EXCEPT !.this.curr_slice =
         Min(m.this.max_show_size, m.this.quantity - m.this.filled_quantity)]

\* Lines 100-105 after the fill of candidate k, m the store after the fill:
\* the loop ends when the incoming order is filled, matching starts again
\* when a slice was replenished, and else the loop goes on.
AfterFill(m, thisId, cands, k, qty, rem, more) ==
    IF rem = 0 THEN SetCurrSlice(m)
    ELSE IF more
    THEN IF m.depth >= RecursionLimit
         THEN [m EXCEPT !.fault = TRUE, !.error = "RecursionError"]
         ELSE matching_engine([m EXCEPT !.depth = @ + 1,
                                        !.restarts = Append(@, qty)],
                              thisId)
    ELSE MatchLoop(m, thisId, cands, k + 1, [rem |-> rem, more |-> more])

\* The for loop of lines 54-105 from candidate k on.  loc holds the local
\* variables my_remaining_qty and more_matching_size_available.
MatchLoop(m, thisId, cands, k, loc) ==
    IF k > Len(cands) THEN SetCurrSlice(m)
    ELSE
      LET other == cands[k].row
          oid == cands[k].id
          qty == trade_quantity(other.curr_slice, loc.rem)
          rem == IF other.curr_slice >= loc.rem THEN 0 ELSE loc.rem - qty
          replenish == other.curr_slice - qty = 0
          o2 == fill_other(other, qty, m.now)
          more == IF replenish THEN o2.curr_slice # 0 ELSE loc.more
          clock == IF replenish THEN m.now + 1 ELSE m.now
          this1 == [m.this EXCEPT !.filled_quantity = @ + qty]
          asserts == /\ o2.filled_quantity <= o2.quantity
                     /\ this1.filled_quantity <= this1.quantity
          o3 == mark_completed(o2)
          this2 == mark_completed(this1)
          dbOther == [m.db EXCEPT ![oid] = o3]
          db1 == Upsert(dbOther, thisId, this2)
          trade == new_trade(this2, thisId, o3, oid, qty)
          m1 == [m EXCEPT !.db = db1, !.this = this2, !.now = clock,
                          !.trades = Append(@, trade),
                          !.sent = @ \o SaveNotes(dbOther, oid, clock)
                                     \o <<TradeNote(db1, trade)>>]
      IN IF ~asserts
         THEN [m EXCEPT !.fault = TRUE, !.error = "AssertionError",
                        !.now = clock]
         ELSE AfterFill(m1, thisId, cands, k, qty, rem, more)

\* One call of matching_engine(this): m is the store, the in-memory incoming
\* order and what the call chain did so far, [db, trades, now, this, fault,
\* error, sent, restarts, depth]; thisId the id the incoming order's row has
\* or will get.  Without candidates the loop is not entered (line 52).
matching_engine(m, thisId) ==
    MatchLoop(m, thisId, matching_orders(m.db, m.this, m.now), 1,
              [rem |-> m.this.quantity - m.this.filled_quantity,
               more |-> FALSE])

-----------------------------------------------------------------------------
(* models.py *)

\* The state of a save when it begins.
BeginSave(db, tr, t, this) ==
    [db |-> db, trades |-> tr, now |-> t, this |-> this,
     fault |-> FALSE, error |-> "", sent |-> <<>>, restarts |-> <<>>,
     depth |-> 1]

\* Lines 200-221 with the notifications given to notify_clients before
\* those of the matching.
Stored_notify_first(m, thisId, saved) ==
    IF m.fault THEN m
    ELSE [m EXCEPT !.db = saved,
                   !.sent = SaveNotes(saved, thisId, m.now) \o @]

\* Lines 200-221: the row is written, then the Order and the Depth
\* notification are given to notify_clients.  saved is the store with the
\* row written.  A failed matching never gets here.
Stored(m, thisId, saved) ==
    IF m.fault THEN m
    ELSE [m EXCEPT !.db = saved,
                   !.sent = @ \o SaveNotes(saved, thisId, m.now)]

\* Lines 196-221 for the state m the matching left.
WriteRow(m, thisId) == Stored(m, thisId, Upsert(m.db, thisId, m.this))

\* OrderSave with every save going through matching_engine.
OrderSave_always_match(db, tr, t, this, thisId, adding) ==
    WriteRow(matching_engine(BeginSave(db, tr, t, this), thisId), thisId)

\* Order.save(): a row that is being added with status WORKING goes through
\* matching_engine; then the row is written.  A failed matching leaves the
\* store as the fills before it wrote it.
OrderSave(db, tr, t, this, thisId, adding) ==
    WriteRow(IF adding /\ this.status = "WORKING"
             THEN matching_engine(BeginSave(db, tr, t, this), thisId)
             ELSE BeginSave(db, tr, t, this),
             thisId)

\* Order(...): the constructor with the defaults of the model's fields.
NewOrderRow(sym, trader, is_buy, quantity, max_show_size, limit_price, curr_slice, filled_quantity, status, t) ==
    [instrument |-> sym, trader |-> trader, is_buy |-> is_buy,
     quantity |-> quantity, max_show_size |-> max_show_size,
     limit_price |-> limit_price, curr_slice |-> curr_slice,
     filled_quantity |-> filled_quantity, status |-> status,
     begin_time |-> t, priority_time |-> t,
     expiration |-> long_time_in_future(t)]

-----------------------------------------------------------------------------
(* util.py: market price, positions, credit gate *)

WorkingLive(db, sym, is_buy, t) ==
    {i \in 1..Len(db) : /\ db[i].instrument = sym
                        /\ db[i].status = "WORKING"
                        /\ db[i].expiration > t
                        /\ db[i].is_buy = is_buy}

\* get_mkt_price, doubled: bid + ask, where a missing or zero best price is
\* replaced by the instrument's bound (float(bid or 0) or minp).
TwiceMktPrice(db, sym, t) ==
    LET instr == Instrument(sym)
        asks == {db[i].limit_price : i \in WorkingLive(db, sym, FALSE, t)}
        bids == {db[i].limit_price : i \in WorkingLive(db, sym, TRUE, t)}
        ask == IF asks = {} THEN 0
               ELSE CHOOSE p \in asks : \A q \in asks : p <= q
        bid == IF bids = {} THEN 0
               ELSE CHOOSE p \in bids : \A q \in bids : p >= q
    IN IF instr.settled THEN 2 * instr.close_price
       ELSE (IF bid = 0 THEN instr.min_price ELSE bid)
            + (IF ask = 0 THEN instr.max_price ELSE ask)

\* _crash_risk measuring a long position against max_price too.
TwiceCrashRisk_at_max_price(twice_price, min_price, max_price, px, pos, qx) ==
    Min(0, (2 * max_price - twice_price) * px * pos * qx)

\* _crash_risk, doubled.
TwiceCrashRisk(twice_price, min_price, max_price, px, pos, qx) ==
    LET risk == IF pos > 0 THEN (2 * min_price - twice_price) * px * pos * qx
                ELSE (2 * max_price - twice_price) * px * pos * qx
    IN Min(0, risk)

\* SignedQty with a trade counted once, as a buy, for a trader who is its
\* buyer and its seller.
SignedQty_once(db, trade, trader) ==
    IF db[trade.buy_order].trader = trader THEN trade.quantity
    ELSE IF db[trade.sell_order].trader = trader THEN 0 - trade.quantity
    ELSE 0

\* The signed quantity a trade adds to the position of the trader: the rows
\* of buys and sells in get_my_positions.
SignedQty(db, trade, trader) ==
    (IF db[trade.buy_order].trader = trader THEN trade.quantity ELSE 0)
    - (IF db[trade.sell_order].trader = trader THEN trade.quantity ELSE 0)

\* get_pos_info of get_my_positions for one symbol, amounts doubled.
PosInfo(db, tr, t, trader, sym) ==
    LET instr == Instrument(sym)
        mine == {k \in 1..Len(tr) : tr[k].instrument = sym /\ tr[k].is_valid}
        pos == SumOver([k \in mine |-> SignedQty(db, tr[k], trader)], mine)
        cost_basis ==
            SumOver([k \in mine |-> SignedQty(db, tr[k], trader)
                        * instr.qty_mult * tr[k].price * instr.price_mult],
                    mine)
        twice_price == TwiceMktPrice(db, sym, t)
        twice_mkt_val == pos * instr.qty_mult * twice_price * instr.price_mult
    IN [position |-> pos,
        twice_price |-> twice_price,
        cost_basis |-> cost_basis,
        twice_mkt_val |-> twice_mkt_val,
        twice_pnl |-> twice_mkt_val - 2 * cost_basis,
        twice_crash_risk |->
            IF instr.expiration > t
            THEN TwiceCrashRisk(twice_price, instr.min_price, instr.max_price,
                                instr.price_mult, pos, instr.qty_mult)
            ELSE 0]

\* The symbols get_my_positions reports for a trader: those of the valid
\* trades the trader bought or sold in.
MySymbols(db, tr, trader) ==
    {tr[k].instrument : k \in {j \in 1..Len(tr) :
        /\ tr[j].is_valid
        /\ \/ db[tr[j].buy_order].trader = trader
           \/ db[tr[j].sell_order].trader = trader}}

\* get_my_pnl, doubled: <<pnl, crash_risk>> summed over the positions.
get_my_pnl(db, tr, t, trader) ==
    LET syms == MySymbols(db, tr, trader)
    IN [twice_pnl |->
            SumOver([s \in syms |-> PosInfo(db, tr, t, trader, s).twice_pnl],
                    syms),
        twice_crash_risk |->
            SumOver([s \in syms |->
                        PosInfo(db, tr, t, trader, s).twice_crash_risk], syms)]

\* get_my_positions(user): one entry for every symbol the trader has a
\* valid trade in.
get_my_positions(db, tr, t, trader) ==
    [s \in MySymbols(db, tr, trader) |-> PosInfo(db, tr, t, trader, s)]

\* get_all_positions(): one entry for every username and symbol with a
\* valid trade, the username the buyer's for the row of the buy and the
\* seller's for the row of the sell.
get_all_positions(db, tr, t) ==
    [e \in {x \in Traders \X Symbols : x[2] \in MySymbols(db, tr, x[1])} |->
        PosInfo(db, tr, t, e[1], e[2])]

\* The place of a username in sorted().
UsernameOrder(trader) == IF trader = "anu" THEN 1 ELSE 2

\* get_all_positions(): the entries of all traders, sorted by username (and
\* symbol); here the usernames in that order.
AllUsernames(db, tr) ==
    LET users == {u \in Traders : MySymbols(db, tr, u) # {}}
    IN [k \in 1..Cardinality(users) |->
          CHOOSE u \in users :
             Cardinality({v \in users : UsernameOrder(v) < UsernameOrder(u)})
               = k - 1]

\* The entry of get_leaderboard for one username (lines 289-296): pnl and
\* crash risk summed over the positions, doubled.
LbEntry(db, tr, t, username) ==
    [username |-> username,
     twice_pnl |-> get_my_pnl(db, tr, t, username).twice_pnl,
     twice_crash_pnl |-> get_my_pnl(db, tr, t, username).twice_crash_risk]

\* sorted(..., reverse=True) taken for an ascending sort.
LbSortsBefore_ascending(a, b) == a.twice_pnl < b.twice_pnl

\* The key of line 297: an entry sorts before another when its pnl is
\* higher.
LbSortsBefore(a, b) == a.twice_pnl > b.twice_pnl

\* sorted(leaderboard, key=pnl, reverse=True): a stable sort, entries with
\* the same pnl keep the order they have in the list lb.
LbSorted(lb) ==
    LET place(i) == Cardinality({j \in 1..Len(lb) :
                        \/ LbSortsBefore(lb[j], lb[i])
                        \/ (~LbSortsBefore(lb[i], lb[j]) /\ j < i)}) + 1
    IN [k \in 1..Len(lb) |-> lb[CHOOSE i \in 1..Len(lb) : place(i) = k]]

\* get_leaderboard(): the sorted entries with their ranks (lines 297-300).
get_leaderboard(db, tr, t) ==
    LET users == AllUsernames(db, tr)
        sorted_lb == LbSorted([k \in 1..Len(users) |->
                                  LbEntry(db, tr, t, users[k])])
    IN [i \in 1..Len(sorted_lb) |->
          [username |-> sorted_lb[i].username,
           twice_pnl |-> sorted_lb[i].twice_pnl,
           twice_crash_pnl |-> sorted_lb[i].twice_crash_pnl,
           rank |-> i]]

\* The order risk of has_credit_for (lines 67-69).
order_risk(instr, is_buy, quantity, price) ==
    Min(0, IF is_buy
           THEN quantity * (instr.min_price - price)
                * instr.price_mult * instr.qty_mult
           ELSE quantity * (price - instr.max_price)
                * instr.price_mult * instr.qty_mult)

\* has_credit_for admitting a sum of exactly zero.
has_credit_for_inclusive(db, tr, t, trader, sym, is_buy, quantity, price) ==
    LET p == get_my_pnl(db, tr, t, trader)
    IN TwiceCreditLimit(trader) + p.twice_pnl + p.twice_crash_risk
       + 2 * order_risk(Instrument(sym), is_buy, quantity, price) >= 0

\* has_credit_for (lines 64-71), the sum doubled.
has_credit_for(db, tr, t, trader, sym, is_buy, quantity, price) ==
    LET p == get_my_pnl(db, tr, t, trader)
    IN TwiceCreditLimit(trader) + p.twice_pnl + p.twice_crash_risk
       + 2 * order_risk(Instrument(sym), is_buy, quantity, price) > 0

-----------------------------------------------------------------------------
(* util.py: the operations *)

\* The answer when no command was handled.
NoReq == [op |-> "none"]

Commit(m, answer) ==
    /\ orders' = m.db
    /\ trades' = m.trades
    /\ now' = m.now
    /\ resp' = IF m.fault THEN m.error ELSE answer
    /\ sent' = m.sent
    /\ restarts' = m.restarts
    /\ UNCHANGED threads

\* new_order(user, data).  A symbol no instrument has makes
\* Instrument.objects.get raise (line 79); a failed credit check answers
\* with the error of line 85.
new_order(trader, sym, is_buy, quantity, max_show_size, limit_price) ==
    IF sym \notin Symbols
    THEN /\ resp' = "DoesNotExist"
         /\ sent' = <<>>
         /\ restarts' = <<>>
         /\ UNCHANGED <<orders, trades, now, threads>>
    ELSE IF ~has_credit_for(orders, trades, now, trader, sym, is_buy,
                            quantity, limit_price)
    THEN /\ resp' = "InsufficientCredit"
         /\ sent' = <<>>
         /\ restarts' = <<>>
         /\ UNCHANGED <<orders, trades, now, threads>>
    ELSE LET id == Len(orders) + 1
             o == NewOrderRow(sym, trader, is_buy, quantity, max_show_size,
                              limit_price, 0, 0, "WORKING", now)
         IN Commit(OrderSave(orders, trades, now + 1, o, id, TRUE), "Success")

\* FindOwnOrder without the filter on the trader.
FindOwnOrder_any_trader(db, trader, id) == id \in 1..Len(db)

\* The row cancel_order finds (line 97): the order of that id, when the
\* user is its trader.
FindOwnOrder(db, trader, id) ==
    id \in 1..Len(db) /\ db[id].trader = trader

\* cancel_order(user, data)
cancel_order(trader, id) ==
    IF FindOwnOrder(orders, trader, id)
    THEN Commit(OrderSave(orders, trades, now,
                          [orders[id] EXCEPT !.status = "CANCELED"], id,
                          FALSE),
                "Success")
    ELSE /\ resp' = "NotFound"
         /\ sent' = <<>>
         /\ restarts' = <<>>
         /\ UNCHANGED <<orders, trades, now, threads>>

\* Order.objects.create(...) as the tests call it: times, displayed slice
\* and filled quantity are given, the status is WORKING.
create_order(trader, sym, is_buy, quantity, max_show_size, limit_price, curr_slice) ==
    LET o == NewOrderRow(sym, trader, is_buy, quantity, max_show_size,
                         limit_price, curr_slice, 0, "WORKING", now)
    IN Commit(OrderSave(orders, trades, now + 1, o, Len(orders) + 1, TRUE),
              "Success")

\* Order.objects.create(...) with the status and the expiration given too.
create_order_as(trader, sym, is_buy, quantity, max_show_size, limit_price, curr_slice, status, expiration) ==
    LET o == [NewOrderRow(sym, trader, is_buy, quantity, max_show_size,
                          limit_price, curr_slice, 0, status, now)
                 EXCEPT !.expiration = expiration]
    IN Commit(OrderSave(orders, trades, now + 1, o, Len(orders) + 1, TRUE),
              "Success")

-----------------------------------------------------------------------------
(* Spec: the exchange driven through run_command by two traders, orders and *)
(* cancels one at a time.                                                   *)

\* The quantities, display sizes and prices a client sends.  new_order takes
\* them as they come: nothing checks their sign.  A client that leaves
\* max_show_size out gets the quantity (line 81).
Quantities == {0 - 1, 0, 1, 2}

ShowSizes(quantity) == IF quantity <= 0 THEN {quantity} ELSE {0, 1, quantity}

Prices == {1, 2}

\* The worker threads database_sync_to_async runs the commands in, and a
\* thread without a command.
RaceThreads == {1, 2}

Idle == [pc |-> "idle"]

Init ==
    /\ threads = [p \in RaceThreads |-> Idle]
    /\ orders = <<>>
    /\ trades = <<>>
    /\ now = 1
    /\ resp = "None"
    /\ req = NoReq
    /\ sent = <<>>
    /\ restarts = <<>>

NewOrder ==
    /\ Len(orders) < MaxOrders
    /\ \E trader \in Traders, is_buy \in BOOLEAN,
          quantity \in Quantities, limit_price \in Prices :
         \E max_show_size \in ShowSizes(quantity) :
            new_order(trader, "TEST", is_buy, quantity, max_show_size,
                      limit_price)
    /\ req' = NoReq

NewOrderUnknownSymbol ==
    /\ \E trader \in Traders : new_order(trader, "NOSUCH", TRUE, 1, 1, 1)
    /\ req' = NoReq

NumCanceled == Cardinality({i \in 1..Len(orders) :
                                orders[i].status = "CANCELED"})

CancelOrder ==
    /\ \E trader \in Traders, id \in 1..MaxOrders :
         /\ (FindOwnOrder(orders, trader, id)
             /\ orders[id].status # "CANCELED") => NumCanceled < MaxCancels
         /\ cancel_order(trader, id)
    /\ req' = NoReq

Next == NewOrder \/ NewOrderUnknownSymbol \/ CancelOrder

Spec == Init /\ [][Next]_vars

-----------------------------------------------------------------------------
(* SpecBook: the book built by one trader whose credit limit never binds,   *)
(* one order after the other.                                               *)

BookOrder ==
    /\ Len(orders) < MaxBookOrders
    /\ \E is_buy \in BOOLEAN, quantity \in Quantities, limit_price \in Prices :
         \E max_show_size \in ShowSizes(quantity) :
            new_order("anu", "TEST", is_buy, quantity, max_show_size,
                      limit_price)
    /\ req' = NoReq

NextBook == BookOrder

SpecBook == Init /\ [][NextBook]_vars

-----------------------------------------------------------------------------
(* SpecCredit: orders of two traders, each command kept in req.             *)

CreditOrder ==
    /\ Len(orders) < MaxCreditOrders
    /\ \E trader \in Traders, is_buy \in BOOLEAN,
          quantity \in Quantities, limit_price \in Prices :
         /\ new_order(trader, "TEST", is_buy, quantity, quantity, limit_price)
         /\ req' = [op |-> "order", trader |-> trader, symbol |-> "TEST",
                    is_buy |-> is_buy, quantity |-> quantity,
                    limit_price |-> limit_price]

NextCredit == CreditOrder

SpecCredit == Init /\ [][NextCredit]_vars

-----------------------------------------------------------------------------
(* SpecCancel: orders and cancels of two traders, each command kept in req. *)

\* The number of orders submitted in a run of SpecCancel.
MaxCancelOrders == 3

CancelQuantities == {1, 2}

CancelSubmit ==
    /\ Len(orders) < MaxCancelOrders
    /\ \E trader \in Traders, is_buy \in BOOLEAN,
          quantity \in CancelQuantities, limit_price \in Prices :
         \E max_show_size \in {1, quantity} :
            /\ new_order(trader, "TEST", is_buy, quantity, max_show_size,
                         limit_price)
            /\ req' = [op |-> "order", trader |-> trader]

CancelCmd ==
    /\ \E trader \in Traders, id \in 1..(MaxCancelOrders + 1) :
         /\ (FindOwnOrder(orders, trader, id)
             /\ orders[id].status # "CANCELED") => NumCanceled < MaxCancels
         /\ cancel_order(trader, id)
         /\ req' = [op |-> "cancel", trader |-> trader, id |-> id]

NextCancel == CancelSubmit \/ CancelCmd

SpecCancel == Init /\ [][NextCancel]_vars

-----------------------------------------------------------------------------
(* SpecDeep: icebergs whose slices are many, built by one trader whose      *)
(* credit limit never binds.                                                *)

\* The number of orders submitted in a run of SpecDeep.
MaxDeepOrders == 3

\* Quantities of which one takes more slices of size 1 than matching_engine
\* may recurse.
DeepQuantities == {1, 2, RecursionLimit + 1}

DeepOrder ==
    /\ Len(orders) < MaxDeepOrders
    /\ \E is_buy \in BOOLEAN, quantity \in DeepQuantities,
          limit_price \in Prices :
         \E max_show_size \in {0 - 1, 1, quantity} :
            new_order("anu", "TEST", is_buy, quantity, max_show_size,
                      limit_price)
    /\ req' = NoReq

NextDeep == DeepOrder

SpecDeep == Init /\ [][NextDeep]_vars

-----------------------------------------------------------------------------
(* SpecCross and SpecChain: the books the two test cases build with         *)
(* Order.objects.create, the buyer ram and the seller anu.                  *)

\* test_models.py: two orders (line 120), 100 at 23 showing 25.
CrossOrders == 2

CrossQuantities == {50, 75, 100}

CrossShowSizes == {20, 25, 40}

CrossPrices == {22, 23}

\* test_multiorder_match.py: three orders (line 152).
ChainOrders == 3

ChainQuantities == {20, 100}

ChainShowSizes == {7, 11, 25}

ChainPrices == {55, 56}

\* The displayed slice both tests pass to Order.objects.create.
TestCurrSlice == 25

TestCreate(is_buy, quantity, max_show_size, limit_price) ==
    /\ create_order(IF is_buy THEN "ram" ELSE "anu", "TEST", is_buy, quantity,
                    max_show_size, limit_price, TestCurrSlice)
    /\ req' = NoReq

CrossCreate ==
    /\ Len(orders) < CrossOrders
    /\ \E is_buy \in BOOLEAN, quantity \in CrossQuantities,
          max_show_size \in CrossShowSizes, limit_price \in CrossPrices :
         TestCreate(is_buy, quantity, max_show_size, limit_price)

NextCross == CrossCreate

SpecCross == Init /\ [][NextCross]_vars

ChainCreate ==
    /\ Len(orders) < ChainOrders
    /\ \E is_buy \in BOOLEAN, quantity \in ChainQuantities,
          max_show_size \in ChainShowSizes, limit_price \in ChainPrices :
         TestCreate(is_buy, quantity, max_show_size, limit_price)

NextChain == ChainCreate

SpecChain == Init /\ [][NextChain]_vars

-----------------------------------------------------------------------------
(* SpecRace: commands of one trader running in two worker threads at once.  *)
(* run_command hands every command to a worker thread; nothing in new_order, *)
(* Order.save, matching_engine or cancel_order takes a lock or opens a      *)
(* transaction, so the threads interleave between their reads of the store  *)
(* and their writes to it.  One step is one read of the store, or the       *)
(* writes of one pass of the loop, or one final write.                      *)

MaxRaceOrders == 3

MaxRaceCancels == 1

RaceQuantities == {1, 2}

\* The submissions in flight that have not inserted their row yet.
Uninserted ==
    {q \in RaceThreads : threads[q].pc \in {"loop", "query", "save"}
                         /\ threads[q].thisId = 0}

CancelsInFlight == {q \in RaceThreads : threads[q].pc = "cancel"}

\* The id of the row of the incoming order of thread record t: the one it
\* got at its insert, or the next one of the table.
RaceThisId(t) == IF t.thisId = 0 THEN Len(orders) + 1 ELSE t.thisId

\* Lines 28-52 in a thread: the candidates are read from the store as it is
\* now and kept by the thread; this is the thread's in-memory order.
RaceQueried(this, thisId, depth) ==
    LET cands == matching_orders(orders, this, now)
    IN [pc |-> IF Len(cands) > 0 THEN "loop" ELSE "save",
        this |-> this, thisId |-> thisId, cands |-> cands, k |-> 1,
        rem |-> this.quantity - this.filled_quantity, more |-> FALSE,
        depth |-> depth]

\* The answer of a thread; what the step leaves alone is said by the step.
RaceAnswer(p, answer, notes) ==
    /\ threads' = [threads EXCEPT ![p] = Idle]
    /\ resp' = answer
    /\ sent' = notes
    /\ restarts' = <<>>
    /\ req' = NoReq

RaceGoesOn(notes) ==
    /\ resp' = "None"
    /\ sent' = notes
    /\ restarts' = <<>>
    /\ req' = NoReq

\* new_order up to the evaluation of the candidates (util.py 74-91,
\* models.py 193-194, matching_engine.py 28-52).
RaceSubmit(p) ==
    /\ threads[p].pc = "idle"
    /\ Len(orders) + Cardinality(Uninserted) < MaxRaceOrders
    /\ \E is_buy \in BOOLEAN, quantity \in RaceQuantities :
         \E max_show_size \in {1, quantity} :
            IF ~has_credit_for(orders, trades, now, "anu", "TEST", is_buy,
                               quantity, 1)
            THEN /\ RaceAnswer(p, "InsufficientCredit", <<>>)
                 /\ UNCHANGED <<orders, trades, now>>
            ELSE /\ threads' =
                      [threads EXCEPT ![p] =
                          RaceQueried(NewOrderRow("TEST", "anu", is_buy,
                                                  quantity, max_show_size, 1,
                                                  0, 0, "WORKING", now),
                                      0, 1)]
                 /\ now' = now + 1
                 /\ RaceGoesOn(<<>>)
                 /\ UNCHANGED <<orders, trades>>

\* Where the thread stands after the pass over candidate k (lines 100-105).
RaceAfterFill(t, rem, more) ==
    IF rem = 0 THEN "save"
    ELSE IF more
    THEN IF t.depth >= RecursionLimit THEN "error" ELSE "query"
    ELSE IF t.k + 1 > Len(t.cands) THEN "save" ELSE "loop"

\* One pass of the loop (lines 54-99): the fill is computed on the row the
\* thread read, and that row, the incoming order's row and the trade are
\* written.
RaceFill(p) ==
    /\ threads[p].pc = "loop"
    /\ LET t == threads[p]
           other == t.cands[t.k].row
           oid == t.cands[t.k].id
           qty == trade_quantity(other.curr_slice, t.rem)
           rem == IF other.curr_slice >= t.rem THEN 0 ELSE t.rem - qty
           replenish == other.curr_slice - qty = 0
           o2 == fill_other(other, qty, now)
           more == IF replenish THEN o2.curr_slice # 0 ELSE t.more
           clock == IF replenish THEN now + 1 ELSE now
           this1 == [t.this EXCEPT !.filled_quantity = @ + qty]
           o3 == mark_completed(o2)
           this2 == mark_completed(this1)
           thisId == RaceThisId(t)
           dbOther == [orders EXCEPT ![oid] = o3]
           db1 == Upsert(dbOther, thisId, this2)
           trade == new_trade(this2, thisId, o3, oid, qty)
           pc == RaceAfterFill(t, rem, more)
       IN IF ~(/\ o2.filled_quantity <= o2.quantity
               /\ this1.filled_quantity <= this1.quantity)
          THEN /\ RaceAnswer(p, "AssertionError", <<>>)
               /\ now' = clock
               /\ UNCHANGED <<orders, trades>>
          ELSE /\ orders' = db1
               /\ trades' = Append(trades, trade)
               /\ now' = clock
               /\ IF pc = "error"
                  THEN RaceAnswer(p, "RecursionError", <<>>)
                  ELSE /\ threads' =
                            [threads EXCEPT ![p] =
                                [t EXCEPT !.pc = pc, !.this = this2,
                                          !.thisId = thisId, !.k = @ + 1,
                                          !.rem = rem, !.more = more]]
                       /\ RaceGoesOn(SaveNotes(dbOther, oid, clock)
                                       \o <<TradeNote(db1, trade)>>)

\* The call of line 105: the candidates are read again.
RaceRestart(p) ==
    /\ threads[p].pc = "query"
    /\ threads' = [threads EXCEPT ![p] =
                      RaceQueried(threads[p].this, threads[p].thisId,
                                  threads[p].depth + 1)]
    /\ RaceGoesOn(<<>>)
    /\ UNCHANGED <<orders, trades, now>>

\* Lines 108-110 and the write of Order.save (models.py 200-221).
RaceSave(p) ==
    /\ threads[p].pc = "save"
    /\ LET t == threads[p]
           this == [t.this EXCEPT !.curr_slice =
                       Min(t.this.max_show_size,
                           t.this.quantity - t.this.filled_quantity)]
           db1 == Upsert(orders, RaceThisId(t), this)
       IN /\ orders' = db1
          /\ RaceAnswer(p, "Success", SaveNotes(db1, RaceThisId(t), now))
    /\ UNCHANGED <<trades, now>>

\* cancel_order, line 97: the row is read.
RaceCancelRead(p) ==
    /\ threads[p].pc = "idle"
    /\ NumCanceled + Cardinality(CancelsInFlight) < MaxRaceCancels
    /\ \E id \in 1..MaxRaceOrders :
         IF FindOwnOrder(orders, "anu", id)
         THEN /\ threads' = [threads EXCEPT ![p] =
                                [pc |-> "cancel", id |-> id,
                                 row |-> orders[id]]]
              /\ RaceGoesOn(<<>>)
         ELSE RaceAnswer(p, "NotFound", <<>>)
    /\ UNCHANGED <<orders, trades, now>>

\* cancel_order, lines 99-101: the row as it was read is written with the
\* status CANCELED.
RaceCancelWrite(p) ==
    /\ threads[p].pc = "cancel"
    /\ LET t == threads[p]
           db1 == [orders EXCEPT ![t.id] = [t.row EXCEPT !.status = "CANCELED"]]
       IN /\ orders' = db1
          /\ RaceAnswer(p, "Success", SaveNotes(db1, t.id, now))
    /\ UNCHANGED <<trades, now>>

NextRace ==
    \E p \in RaceThreads :
        \/ RaceSubmit(p)
        \/ RaceFill(p)
        \/ RaceRestart(p)
        \/ RaceSave(p)
        \/ RaceCancelRead(p)
        \/ RaceCancelWrite(p)

SpecRace == Init /\ [][NextRace]_vars

-----------------------------------------------------------------------------
(* SpecLadder: get_order_book_data applied to books of the instrument GAME   *)
(* whose prices are counted in halves.  req holds the book, resp the ladder. *)

LadderUnit == 2

MaxLadderOrders == 3

\* 1, 7, 7.5, 8 and 8.5 in halves.
LadderLimitPrices == {2, 14, 15, 16, 17}

LadderBook == IF req.op = "depth" THEN req.book ELSE <<>>

LadderOrder ==
    /\ Len(LadderBook) < MaxLadderOrders
    /\ \E is_buy \in BOOLEAN, limit_price \in LadderLimitPrices,
          curr_slice \in {0, 1}, status \in {"WORKING", "CANCELED"} :
         LET o == NewOrderRow("GAME", "anu", is_buy, 2, 2, limit_price,
                              curr_slice, 0, status, now)
             book == Append(LadderBook, o)
         IN /\ req' = [op |-> "depth", book |-> book]
            /\ resp' = get_order_book_data_at(book, "GAME", now, LadderUnit)
    /\ UNCHANGED <<orders, trades, now, sent, restarts, threads>>

NextLadder == LadderOrder

SpecLadder == Init /\ [][NextLadder]_vars

-----------------------------------------------------------------------------
(* SpecMkt: get_mkt_price applied to books of a live and of a settled        *)
(* instrument.  req holds the symbol and the book, resp the price, doubled. *)

MaxMktOrders == 3

\* The limit prices of the books: the instrument's min_price 0 is one.
MktLimitPrices == {0, 1, 2}

MktBook == IF req.op = "mkt_price" THEN req.book ELSE <<>>

MktOrder ==
    /\ Len(MktBook) < MaxMktOrders
    /\ \E sym \in {"TEST", "DONE"}, is_buy \in BOOLEAN,
          limit_price \in MktLimitPrices, status \in {"WORKING", "CANCELED"} :
         LET o == NewOrderRow(sym, "anu", is_buy, 1, 1, limit_price, 1, 0,
                              status, now)
             book == Append(MktBook, o)
         IN /\ req.op = "mkt_price" => req.symbol = sym
            /\ req' = [op |-> "mkt_price", symbol |-> sym, book |-> book]
            /\ resp' = TwiceMktPrice(book, sym, now)
    /\ UNCHANGED <<orders, trades, now, sent, restarts, threads>>

NextMkt == MktOrder

SpecMkt == Init /\ [][NextMkt]_vars

-----------------------------------------------------------------------------
(* SpecPos: get_my_positions and get_leaderboard applied to trades between   *)
(* two traders in three instruments.  req holds the orders and the trades,   *)
(* resp the positions of each trader and the leaderboard.                    *)

MaxPosTrades == 2

PosSymbols == {"TEST", "LOT", "PAST"}

PosSymbolIndex(sym) == IF sym = "TEST" THEN 0 ELSE IF sym = "LOT" THEN 1 ELSE 2

\* The orders of the trades: in every instrument a buy order at 1 and a
\* sell order at 3 of each trader, all WORKING or all COMPLETED.
PosOrderId(sym, trader, is_buy) ==
    4 * PosSymbolIndex(sym) + 2 * (UsernameOrder(trader) - 1)
    + (IF is_buy THEN 1 ELSE 2)

PosOrders(status) ==
    [id \in 1..12 |->
        LET sym == CHOOSE s \in PosSymbols : PosSymbolIndex(s) = (id - 1) \div 4
            trader == CHOOSE u \in Traders :
                          UsernameOrder(u) - 1 = ((id - 1) % 4) \div 2
            is_buy == id % 2 = 1
        IN NewOrderRow(sym, trader, is_buy, 4, 4, IF is_buy THEN 1 ELSE 3,
                       4, 0, status, 1)]

PosDb == IF req.op = "positions" THEN req.db ELSE PosOrders("WORKING")

PosTrades == IF req.op = "positions" THEN req.trades ELSE <<>>

\* The answers to get_my_positions of every trader and to get_leaderboard.
PosAnswer(db, tr, t) ==
    [positions |-> [u \in Traders |-> get_my_positions(db, tr, t, u)],
     all_positions |-> get_all_positions(db, tr, t),
     leaderboard |-> get_leaderboard(db, tr, t)]

\* A trade is booked (matching_engine.py 91-98), or booked and invalidated
\* by settle_game.py (line 41).
PosTrade ==
    /\ Len(PosTrades) < MaxPosTrades
    /\ \E sym \in PosSymbols, buyer \in Traders, seller \in Traders,
          quantity \in {1, 2}, price \in {1, 2}, is_valid \in BOOLEAN,
          status \in {"WORKING", "COMPLETED"} :
         LET db == IF req.op = "positions" THEN req.db ELSE PosOrders(status)
             trade == [instrument |-> sym, quantity |-> quantity,
                       price |-> price,
                       buy_order |-> PosOrderId(sym, buyer, TRUE),
                       sell_order |-> PosOrderId(sym, seller, FALSE),
                       is_buyer_taker |-> TRUE, is_valid |-> is_valid]
             tr == Append(PosTrades, trade)
         IN /\ req.op = "positions" => status = "WORKING"
            /\ req' = [op |-> "positions", db |-> db, trades |-> tr]
            /\ resp' = PosAnswer(db, tr, now)
    /\ UNCHANGED <<orders, trades, now, sent, restarts, threads>>

NextPos == PosTrade

SpecPos == Init /\ [][NextPos]_vars

-----------------------------------------------------------------------------
(* SpecSave: orders created with Order.objects.create in any status, and    *)
(* cancels, all of one trader; each command kept in req.                    *)

\* The number of orders created in a run of SpecSave.
MaxSaveOrders == 3

\* The rows of OrderStatus.
OrderStatuses == {"WORKING", "COMPLETED", "CANCELED"}

SaveCreate ==
    /\ Len(orders) < MaxSaveOrders
    /\ \E is_buy \in BOOLEAN, quantity \in CancelQuantities,
          limit_price \in Prices, status \in OrderStatuses :
         /\ create_order_as("anu", "TEST", is_buy, quantity, quantity,
                            limit_price, quantity, status,
                            long_time_in_future(now))
         /\ req' = [op |-> "create", status |-> status]

SaveCancel ==
    /\ \E id \in 1..MaxSaveOrders :
         /\ (FindOwnOrder(orders, "anu", id)
             /\ orders[id].status # "CANCELED") => NumCanceled < MaxCancels
         /\ cancel_order("anu", id)
         /\ req' = [op |-> "cancel", trader |-> "anu", id |-> id]

NextSave == SaveCreate \/ SaveCancel

SpecSave == Init /\ [][NextSave]_vars

-----------------------------------------------------------------------------
(* SpecFill: the submissions of one trader in one worker thread, every      *)
(* write to the store a step of its own, as every save is committed on its  *)
(* own: the store between two steps is what a reader finds.                 *)

\* The thread that runs the commands of SpecFill.
FillThread == 1

\* other.save() of line 85: the fill is computed on the row read by the
\* query (lines 55-83), the resting order's row is written, and Order.save
\* gives its Order and Depth notification to notify_clients.
FillOther ==
    /\ threads[FillThread].pc = "loop"
    /\ LET t == threads[FillThread]
           other == t.cands[t.k].row
           oid == t.cands[t.k].id
           qty == trade_quantity(other.curr_slice, t.rem)
           rem == IF other.curr_slice >= t.rem THEN 0 ELSE t.rem - qty
           replenish == other.curr_slice - qty = 0
           o2 == fill_other(other, qty, now)
           more == IF replenish THEN o2.curr_slice # 0 ELSE t.more
           clock == IF replenish THEN now + 1 ELSE now
           this1 == [t.this EXCEPT !.filled_quantity = @ + qty]
           o3 == mark_completed(o2)
           this2 == mark_completed(this1)
           dbOther == [orders EXCEPT ![oid] = o3]
       IN IF ~(/\ o2.filled_quantity <= o2.quantity
               /\ this1.filled_quantity <= this1.quantity)
          THEN /\ RaceAnswer(FillThread, "AssertionError", <<>>)
               /\ now' = clock
               /\ UNCHANGED <<orders, trades>>
          ELSE /\ orders' = dbOther
               /\ now' = clock
               /\ threads' =
                    [threads EXCEPT ![FillThread] =
                        [pc |-> "this", this |-> this2, thisId |-> t.thisId,
                         cands |-> t.cands, k |-> t.k, rem |-> rem,
                         more |-> more, depth |-> t.depth,
                         other |-> o3, oid |-> oid, qty |-> qty]]
               /\ RaceGoesOn(SaveNotes(dbOther, oid, clock))
               /\ UNCHANGED trades

\* super(M.Order, this).save() of line 88: the incoming order's row is
\* inserted the first time and updated afterwards.
FillThis ==
    /\ threads[FillThread].pc = "this"
    /\ LET t == threads[FillThread]
           thisId == RaceThisId(t)
       IN /\ orders' = Upsert(orders, thisId, t.this)
          /\ threads' = [threads EXCEPT ![FillThread] =
                            [t EXCEPT !.pc = "trade", !.thisId = thisId]]
    /\ RaceGoesOn(<<>>)
    /\ UNCHANGED <<trades, now>>

\* Trade(...).save() of lines 92-99, and where the loop goes next (lines
\* 100-105).
FillTrade ==
    /\ threads[FillThread].pc = "trade"
    /\ LET t == threads[FillThread]
           trade == new_trade(t.this, t.thisId, t.other, t.oid, t.qty)
           pc == RaceAfterFill(t, t.rem, t.more)
       IN /\ trades' = Append(trades, trade)
          /\ IF pc = "error"
             THEN RaceAnswer(FillThread, "RecursionError", <<>>)
             ELSE /\ threads' =
                       [threads EXCEPT ![FillThread] =
                           [pc |-> pc, this |-> t.this, thisId |-> t.thisId,
                            cands |-> t.cands, k |-> t.k + 1, rem |-> t.rem,
                            more |-> t.more, depth |-> t.depth]]
                  /\ RaceGoesOn(<<TradeNote(orders, trade)>>)
    /\ UNCHANGED <<orders, now>>

NextFill ==
    \/ RaceSubmit(FillThread)
    \/ FillOther
    \/ FillThis
    \/ FillTrade
    \/ RaceRestart(FillThread)
    \/ RaceSave(FillThread)

SpecFill == Init /\ [][NextFill]_vars

-----------------------------------------------------------------------------
(* SpecMulti: orders and cancels of one trader in two instruments, each     *)
(* command kept in req.                                                     *)

\* The number of orders submitted in a run of SpecMulti.
MaxMultiOrders == 3

MultiSymbols == {"TEST", "LOT"}

MultiOrder ==
    /\ Len(orders) < MaxMultiOrders
    /\ \E sym \in MultiSymbols, is_buy \in BOOLEAN,
          quantity \in CancelQuantities, limit_price \in Prices :
         \E max_show_size \in {1, quantity} :
            /\ new_order("anu", sym, is_buy, quantity, max_show_size,
                         limit_price)
            /\ req' = [op |-> "order", trader |-> "anu", symbol |-> sym]

MultiCancel ==
    /\ \E id \in 1..MaxMultiOrders :
         /\ (FindOwnOrder(orders, "anu", id)
             /\ orders[id].status # "CANCELED") => NumCanceled < MaxCancels
         /\ cancel_order("anu", id)
         /\ req' = [op |-> "cancel", trader |-> "anu", id |-> id]

NextMulti == MultiOrder \/ MultiCancel

SpecMulti == Init /\ [][NextMulti]_vars

-----------------------------------------------------------------------------
(* SpecExpiry: WORKING orders of one trader created with                    *)
(* Order.objects.create, their expiration given: already past, reached     *)
(* after the next submission, or far in the future.                         *)

\* The number of orders created in a run of SpecExpiry.
MaxExpiryOrders == 3

\* The expirations given to an order created at time t.
ExpiryTimes(t) == {0, t + 2, long_time_in_future(t)}

ExpiryCreate ==
    /\ Len(orders) < MaxExpiryOrders
    /\ \E is_buy \in BOOLEAN, quantity \in CancelQuantities,
          limit_price \in Prices, expiration \in ExpiryTimes(now) :
         /\ create_order_as("anu", "TEST", is_buy, quantity, quantity,
                            limit_price, quantity, "WORKING", expiration)
         /\ req' = [op |-> "create", status |-> "WORKING"]

NextExpiry == ExpiryCreate

SpecExpiry == Init /\ [][NextExpiry]_vars

-----------------------------------------------------------------------------
(* Properties *)

\* The trades that reference order id, as buy_order or as sell_order.
TradesOf(tr, id) ==
    {k \in 1..Len(tr) : tr[k].buy_order = id \/ tr[k].sell_order = id}

TradedQty(tr, id) ==
    SumOver([k \in TradesOf(tr, id) |-> tr[k].quantity], TradesOf(tr, id))

\* A step that added an order row, the row it added and the trades it booked.
IsSubmission == Len(orders') = Len(orders) + 1

Incoming == orders'[Len(orders')]

NewTradeIds == (Len(trades) + 1)..Len(trades')

\* The resting order of a trade booked for the incoming order inc.
RestingOf(inc, trade) ==
    IF inc.is_buy THEN trade.sell_order ELSE trade.buy_order

CeilDiv(a, b) == (a + b - 1) \div b

\* C1: after every operation of a serialized run, every order has
\* 0 <= filled_quantity <= quantity, the quantities of the trades that
\* reference it sum to its filled_quantity, and no assertion of the matching
\* loop has failed.
C1_QuantityConservation ==
    /\ resp # "AssertionError"
    /\ \A i \in 1..Len(orders) :
         /\ 0 <= orders[i].filled_quantity
         /\ orders[i].filled_quantity <= orders[i].quantity
         /\ TradedQty(trades, i) = orders[i].filled_quantity

\* The aggressor a crosses the resting order r.
Crosses(a, r) ==
    /\ a.is_buy # r.is_buy
    /\ a.instrument = r.instrument
    /\ IF a.is_buy THEN r.limit_price <= a.limit_price
                   ELSE r.limit_price >= a.limit_price

\* C2: a resting iceberg of quantity Q showing S that absorbs one aggressor
\* of quantity Q at a crossing price gives ceil(Q/S) trades, each of size S
\* but possibly the last, at the resting limit price, is_buyer_taker telling
\* whether the aggressor buys; both orders end COMPLETED and filled.
C2_IcebergCross ==
    (Len(orders) = 2 /\ Crosses(orders[2], orders[1])
     /\ orders[1].quantity = orders[2].quantity)
    => LET Q == orders[1].quantity
           S == orders[1].max_show_size
           n == CeilDiv(Q, S)
       IN /\ Len(trades) = n
          /\ \A k \in 1..Len(trades) :
               /\ trades[k].quantity = IF k < n THEN S ELSE Q - (n - 1) * S
               /\ trades[k].price = orders[1].limit_price
               /\ trades[k].is_buyer_taker = orders[2].is_buy
          /\ \A i \in 1..2 : /\ orders[i].status = "COMPLETED"
                             /\ orders[i].filled_quantity = orders[i].quantity

\* The instance of test_models.py: buy 100 at 23 showing 25 resting, sell 100
\* at 23 showing 25 arriving, four trades booked.
C2_Witness ==
    /\ Len(orders) = 2
    /\ orders[1].is_buy /\ orders[1].quantity = 100
    /\ orders[1].max_show_size = 25 /\ orders[1].limit_price = 23
    /\ ~orders[2].is_buy /\ orders[2].quantity = 100
    /\ orders[2].max_show_size = 25 /\ orders[2].limit_price = 23
    /\ Len(trades) = 4
    /\ \A k \in 1..4 : trades[k].quantity = 25 /\ ~trades[k].is_buyer_taker

IsOrder(o, is_buy, quantity, max_show_size, limit_price) ==
    /\ o.is_buy = is_buy
    /\ o.quantity = quantity
    /\ o.max_show_size = max_show_size
    /\ o.limit_price = limit_price

\* The book of test_multiorder_match.py: sell A 100 showing 25 at 55, sell B
\* 20 showing 7 at 55, then buy C 100 showing 11 at 56.
IsChainBook ==
    /\ Len(orders) >= 3
    /\ IsOrder(orders[1], FALSE, 100, 25, 55)
    /\ IsOrder(orders[2], FALSE, 20, 7, 55)
    /\ IsOrder(orders[3], TRUE, 100, 11, 56)

\* C3: the chain book gives seven trades of sizes 25, 7, 25, 7, 25, 6, 5 in
\* creation order, alternating between A and B, all at 55 with the buyer as
\* taker.
C3_ChainTrades ==
    IsChainBook
    => /\ [k \in 1..Len(trades) |-> trades[k].quantity]
            = <<25, 7, 25, 7, 25, 6, 5>>
       /\ [k \in 1..Len(trades) |-> trades[k].sell_order]
            = <<1, 2, 1, 2, 1, 2, 1>>
       /\ \A k \in 1..Len(trades) :
            /\ trades[k].price = 55
            /\ trades[k].is_buyer_taker
            /\ trades[k].buy_order = 3

\* The chain book with its trades booked, the last of size 5 against A.
C3_Witness ==
    /\ IsChainBook
    /\ Len(trades) = 7
    /\ trades[7].quantity = 5 /\ trades[7].sell_order = 1

\* C4 as the specification states it: in the chain book C ends WORKING with
\* filled_quantity 80, A and B end COMPLETED.
C4_AsStated ==
    IsChainBook
    => /\ orders[3].status = "WORKING" /\ orders[3].filled_quantity = 80
       /\ orders[1].status = "COMPLETED"
       /\ orders[2].status = "COMPLETED"

\* C4 amended: in the chain book A ends WORKING with filled_quantity 80, B
\* and C end COMPLETED.
C4_ChainStatuses ==
    IsChainBook
    => /\ orders[1].status = "WORKING" /\ orders[1].filled_quantity = 80
       /\ orders[2].status = "COMPLETED"
       /\ orders[3].status = "COMPLETED"

\* The chain book after C was matched: C is filled.
C4_Witness ==
    IsChainBook /\ orders[3].filled_quantity = 100

\* C5: after the chain book was built there are three order rows, the first
\* created (A) WORKING with filled_quantity 80, the two later ones (B and C)
\* COMPLETED with filled_quantity = quantity.
C5_ChainOrders ==
    IsChainBook
    => /\ Len(orders) = 3
       /\ orders[1].status = "WORKING" /\ orders[1].filled_quantity = 80
       /\ \A i \in 2..3 : /\ orders[i].status = "COMPLETED"
                          /\ orders[i].filled_quantity = orders[i].quantity

\* The chain book after C was matched: B is filled, A keeps 20 to sell.
C5_Witness ==
    /\ IsChainBook
    /\ orders[2].filled_quantity = 20
    /\ orders[1].quantity - orders[1].filled_quantity = 20

\* Candidate a is the first of the priority order for the incoming order:
\* no other candidate has a better price, or the same price and an earlier
\* priority time.
FirstInLine(inc, a) ==
    \A c \in 1..Len(orders) :
        (c # a /\ IsCandidate(orders[c], inc, now))
        => \/ orders[c].limit_price > orders[a].limit_price
           \/ /\ orders[c].limit_price = orders[a].limit_price
              /\ orders[c].priority_time > orders[a].priority_time

\* C6: of two resting WORKING sells a and b at one price, a with the earlier
\* priority_time and first in line, an incoming buy that a's displayed slice
\* satisfies trades with a only, and b is left as it was.
C6_TimePriority ==
    [][IsSubmission =>
        \A a, b \in 1..Len(orders) :
          (/\ a # b
           /\ Incoming.is_buy
           /\ IsCandidate(orders[a], Incoming, now)
           /\ IsCandidate(orders[b], Incoming, now)
           /\ orders[a].limit_price = orders[b].limit_price
           /\ orders[a].priority_time < orders[b].priority_time
           /\ FirstInLine(Incoming, a)
           /\ Incoming.quantity > 0
           /\ Incoming.quantity <= orders[a].curr_slice)
          => /\ orders'[b] = orders[b]
             /\ Cardinality(NewTradeIds) = 1
             /\ \A k \in NewTradeIds :
                  /\ trades'[k].sell_order = a
                  /\ trades'[k].quantity = Incoming.quantity
             /\ orders'[a].filled_quantity
                  = orders[a].filled_quantity + Incoming.quantity
      ]_vars

\* Two sells rest at one price, a buy arrived and traded with the first.
C6_Witness ==
    /\ Len(orders) = 3
    /\ ~orders[1].is_buy /\ ~orders[2].is_buy /\ orders[3].is_buy
    /\ orders[1].limit_price = orders[2].limit_price
    /\ orders[1].priority_time < orders[2].priority_time
    /\ Len(trades) = 1
    /\ trades[1].sell_order = 1 /\ trades[1].quantity > 0
    /\ orders[2].status = "WORKING" /\ orders[2].filled_quantity = 0

\* What resting order b had filled when trade k of the submission was booked.
FilledBefore(inc, b, k) ==
    LET earlier == {j \in NewTradeIds :
                        j < k /\ RestingOf(inc, trades'[j]) = b}
    IN orders[b].filled_quantity
       + SumOver([j \in earlier |-> trades'[j].quantity], earlier)

BetterPrice(inc, b, r) ==
    IF inc.is_buy THEN orders[b].limit_price < orders[r].limit_price
                  ELSE orders[b].limit_price > orders[r].limit_price

\* C7: during a submission no resting order is filled while an eligible
\* resting order at a strictly better price has unfilled quantity, and the
\* trade prices of the submission never get better for the aggressor.
\* Stated for the books whose orders, the incoming one included, all have a
\* positive quantity.
C7_PricePriority ==
    [][(IsSubmission /\ \A i \in 1..Len(orders') : orders'[i].quantity > 0) =>
        /\ \A k \in NewTradeIds : \A b \in 1..Len(orders) :
             (/\ trades'[k].quantity > 0
              /\ IsCandidate(orders[b], Incoming, now)
              /\ BetterPrice(Incoming, b, RestingOf(Incoming, trades'[k])))
             => FilledBefore(Incoming, b, k) >= orders[b].quantity
        /\ \A j, k \in NewTradeIds :
             j < k => IF Incoming.is_buy
                      THEN trades'[j].price <= trades'[k].price
                      ELSE trades'[j].price >= trades'[k].price
      ]_vars

\* C8: every trade has the limit price of the resting order (the one of its
\* two orders created first), which lies between the sell and the buy limit;
\* the instrument of both orders; a buy order as buy_order and a sell order
\* as sell_order; and is_buyer_taker exactly when the incoming order (the
\* one created last) is the buy.
C8_TradeShape ==
    \A k \in 1..Len(trades) :
        LET t == trades[k]
            b == orders[t.buy_order]
            s == orders[t.sell_order]
            resting == orders[Min(t.buy_order, t.sell_order)]
        IN /\ t.buy_order # t.sell_order
           /\ b.is_buy /\ ~s.is_buy
           /\ t.instrument = b.instrument /\ t.instrument = s.instrument
           /\ t.price = resting.limit_price
           /\ s.limit_price <= t.price /\ t.price <= b.limit_price
           /\ t.is_buyer_taker = (t.buy_order > t.sell_order)

\* A sell took a resting buy at the buy's higher limit, and a buy took a
\* resting sell.
C8_Witness ==
    /\ \E k \in 1..Len(trades) :
         /\ ~trades[k].is_buyer_taker
         /\ orders[trades[k].sell_order].limit_price < trades[k].price
    /\ \E k \in 1..Len(trades) : trades[k].is_buyer_taker

\* The sum the claim names for the command r, doubled: credit_limit + pnl +
\* crash_risk + order_risk.
TwiceCreditSum(r) ==
    LET instr == Instrument(r.symbol)
        p == get_my_pnl(orders, trades, now, r.trader)
        risk == IF r.is_buy
                THEN r.quantity * (instr.min_price - r.limit_price)
                     * instr.price_mult * instr.qty_mult
                ELSE r.quantity * (r.limit_price - instr.max_price)
                     * instr.price_mult * instr.qty_mult
    IN TwiceCreditLimit(r.trader) + p.twice_pnl + p.twice_crash_risk
       + 2 * (IF risk < 0 THEN risk ELSE 0)

\* C9: new_order admits the order exactly when the sum is positive; when it
\* is not, the answer is the insufficient-credit error and neither an order
\* row nor a trade is added nor a resting order changed.
C9_CreditGate ==
    [][req'.op = "order" =>
        IF TwiceCreditSum(req') > 0
        THEN /\ resp' = "Success"
             /\ IsSubmission
             /\ Incoming.trader = req'.trader
             /\ IsOrder(Incoming, req'.is_buy, req'.quantity, req'.quantity,
                        req'.limit_price)
        ELSE /\ resp' = "InsufficientCredit"
             /\ orders' = orders
             /\ trades' = trades
      ]_vars

\* An order was refused while the trader held a position, and one was
\* admitted while the trader held a position.
C9_Witness ==
    /\ req.op = "order"
    /\ resp = "InsufficientCredit"
    /\ \E k \in 1..Len(trades) :
         /\ trades[k].quantity > 0
         /\ orders[trades[k].buy_order].trader # orders[trades[k].sell_order].trader
         /\ req.trader \in {orders[trades[k].buy_order].trader,
                            orders[trades[k].sell_order].trader}

\* C10: an order with a non-positive quantity is rejected before it touches
\* the book: it gets no order row, so no row of the Order table has a
\* quantity <= 0.
C10_NonPositiveRejected ==
    \A i \in 1..Len(orders) : orders[i].quantity > 0

\* The order a cancel command names exists.
CancelHits(r) == r.op = "cancel" /\ r.id \in 1..Len(orders)

\* C11: a cancel is accepted only for a WORKING order of the requesting
\* trader; a cancel of any other order, one already COMPLETED or CANCELED
\* included, is answered as not found and changes no order and no trade.
C11_CancelOnlyWorking ==
    [][req'.op = "cancel" =>
        IF /\ CancelHits(req')
           /\ orders[req'.id].trader = req'.trader
           /\ orders[req'.id].status = "WORKING"
        THEN /\ resp' = "Success"
             /\ orders'[req'.id].status = "CANCELED"
        ELSE /\ resp' = "NotFound"
             /\ orders' = orders
             /\ trades' = trades
      ]_vars

\* C12: a cancel sent by a user who is not the order's trader is answered
\* as not found and leaves every order and every trade as it was.
C12_CancelOwnership ==
    [][(CancelHits(req') /\ orders[req'.id].trader # req'.trader) =>
        /\ resp' = "NotFound"
        /\ orders' = orders
        /\ trades' = trades
      ]_vars

\* The other trader asked to cancel a WORKING order and was refused.
C12_Witness ==
    /\ CancelHits(req)
    /\ orders[req.id].trader # req.trader
    /\ orders[req.id].status = "WORKING"
    /\ resp = "NotFound"

Terminal(o) == o.status \in {"COMPLETED", "CANCELED"}

\* C13: an order that is COMPLETED or CANCELED is never WORKING again, and
\* a later submission neither changes it nor books a trade with it.
C13_NeverResurrected ==
    [][\A i \in 1..Len(orders) :
         Terminal(orders[i]) =>
           /\ orders'[i].status # "WORKING"
           /\ IsSubmission =>
                /\ orders'[i] = orders[i]
                /\ \A k \in NewTradeIds :
                     trades'[k].buy_order # i /\ trades'[k].sell_order # i
      ]_vars

\* A partly filled order was canceled, and an order that crosses it came
\* later and rests.
C13_Witness ==
    \E i, j \in 1..Len(orders) :
       /\ i < j
       /\ orders[i].status = "CANCELED"
       /\ orders[i].filled_quantity > 0
       /\ orders[i].filled_quantity < orders[i].quantity
       /\ Crosses(orders[j], orders[i])
       /\ orders[j].status = "WORKING"
       /\ orders[j].filled_quantity = 0

Aborted(answer) == answer \in {"AssertionError", "RecursionError"}

\* C16: a matching attempt that aborts leaves nothing behind: the orders
\* and the trades are what they were before the submission.
C16_AllOrNothing ==
    [][Aborted(resp') => orders' = orders /\ trades' = trades]_vars

\* C17: every matching attempt runs to its end, and each of its restarts
\* follows a trade of a strictly positive quantity.
C17_Termination ==
    /\ resp # "RecursionError"
    /\ \A k \in 1..Len(restarts) : restarts[k] > 0

\* C18: a resting order that was filled and replenished gets its next fill
\* of the submission only after every other eligible resting order of its
\* price that showed a size and is not filled up got one.  Stated for the
\* books whose orders, the incoming one included, all have a positive
\* quantity.
C18_ReplenishedLosesPriority ==
    [][(IsSubmission /\ \A i \in 1..Len(orders') : orders'[i].quantity > 0) =>
        \A a, b \in 1..Len(orders) : \A j, k \in NewTradeIds :
          (/\ j < k
           /\ a # b
           /\ RestingOf(Incoming, trades'[j]) = a
           /\ RestingOf(Incoming, trades'[k]) = a
           /\ IsCandidate(orders[b], Incoming, now)
           /\ orders[b].limit_price = orders[a].limit_price
           /\ orders[b].curr_slice > 0
           /\ FilledBefore(Incoming, b, j) < orders[b].quantity)
          => \E i \in NewTradeIds :
                j < i /\ i < k /\ RestingOf(Incoming, trades'[i]) = b
      ]_vars

\* The notifications of one type among those sent.
NotesOfType(s, type) == {k \in 1..Len(s) : s[k].type = type}

\* C19: a submission sends the Order notification of the incoming order
\* and, last, the Depth notification of its instrument after every Trade
\* notification; the Order notification shows the row as it is stored at
\* the end and the Depth notification the ladder of the book at the end.
C19_NotificationOrder ==
    [][(IsSubmission /\ resp' = "Success") =>
        LET n == Len(sent')
            id == Len(orders')
        IN /\ n >= 2
           /\ sent'[n - 1] = OrderNote(id, orders'[id])
           /\ sent'[n].type = "Depth"
           /\ sent'[n].symbol = Incoming.instrument
           /\ sent'[n].ladder
                = get_order_book_data(orders', Incoming.instrument, now')
           /\ \A k \in NotesOfType(sent', "Trade") : k < n - 1
           /\ Cardinality(NotesOfType(sent', "Trade"))
                = Cardinality(NewTradeIds)
           /\ \A k \in NotesOfType(sent', "Order") :
                sent'[k].id = id => k = n - 1
      ]_vars

\* A submission that traded twice and rests sent its notifications.
C19_Witness ==
    /\ resp = "Success"
    /\ Cardinality(NotesOfType(sent, "Trade")) = 2
    /\ Len(orders) = 3
    /\ orders[3].status = "WORKING"
    /\ orders[3].filled_quantity > 0
    /\ sent[Len(sent)].type = "Depth"
    /\ Len(sent[Len(sent)].ladder) >= 1

Quiescent == \A p \in RaceThreads : threads[p].pc = "idle"

\* Claim C14: under every interleaving of concurrent submissions no displayed
\* slice is filled twice and no update of an order is lost: once the
\* submissions have ended, every order has filled_quantity <= quantity and
\* filled_quantity equal to the sum of the quantities of its trades.
C14_SerializedMatching ==
    Quiescent =>
        \A i \in 1..Len(orders) :
            /\ orders[i].filled_quantity <= orders[i].quantity
            /\ orders[i].filled_quantity = TradedQty(trades, i)

\* Two submissions have ended, no cancel was made, and the trades of an
\* order add up to more than its quantity.
C14_DoubleFill ==
    /\ Quiescent
    /\ NumCanceled = 0
    /\ \E i \in 1..Len(orders) : TradedQty(trades, i) > orders[i].quantity

\* Claim C15: when a cancellation races a matching attempt that fills the same
\* order, no write replaces a committed CANCELED status, no trade is booked
\* against an order whose cancel is committed, and the write of a cancel
\* leaves filled_quantity and curr_slice as they are committed.
C15_CancelExcludesFill ==
    [][\A i \in 1..Len(orders) :
          /\ orders[i].status = "CANCELED"
                => /\ orders'[i].status = "CANCELED"
                   /\ \A k \in NewTradeIds :
                        trades'[k].buy_order # i /\ trades'[k].sell_order # i
          /\ (orders[i].status # "CANCELED" /\ orders'[i].status = "CANCELED")
                => /\ orders'[i].filled_quantity = orders[i].filled_quantity
                   /\ orders'[i].curr_slice = orders[i].curr_slice]_vars

\* A canceled order whose row shows less filled than its trades add up to,
\* after all commands have answered "Success" or are over: the write of the
\* cancel took back a fill.
C15_CancelRevertsFill ==
    /\ Quiescent
    /\ \E i \in 1..Len(orders) :
          /\ orders[i].status = "CANCELED"
          /\ orders[i].filled_quantity < TradedQty(trades, i)
          /\ TradedQty(trades, i) <= orders[i].quantity

\* The price level of an order of a book in halves: its limit price without
\* the fraction.
RefLevel(o) == o.limit_price \div LadderUnit

\* The displayed sizes of the WORKING orders of one side at one level.
RefSize(book, is_buy, p) ==
    LET ids == {i \in 1..Len(book) : /\ book[i].status = "WORKING"
                                     /\ book[i].is_buy = is_buy
                                     /\ RefLevel(book[i]) = p}
    IN SumOver([i \in ids |-> IF book[i].curr_slice # 0
                              THEN book[i].curr_slice
                              ELSE Min(book[i].max_show_size,
                                       book[i].quantity
                                         - book[i].filled_quantity)], ids)

\* Claim C21: the depth ladder is the reference aggregation: its rows are in
\* strictly descending price order, and they are the levels with a size,
\* each with the sum of the displayed sizes of the WORKING buy orders and of
\* the WORKING sell orders whose limit price, without its fraction, is that
\* level.
C21_LadderIsAggregation ==
    req.op = "depth" =>
        /\ \A k \in 1..(Len(resp) - 1) : resp[k][2] > resp[k + 1][2]
        /\ {resp[k] : k \in 1..Len(resp)}
             = {r \in {<<RefSize(req.book, TRUE, p), p,
                         RefSize(req.book, FALSE, p)>> : p \in 0..100} :
                  r[1] # 0 \/ r[3] # 0}

\* The limit prices of the WORKING orders of one side of a book.
RefLimits(book, sym, is_buy) ==
    {book[i].limit_price : i \in {j \in 1..Len(book) :
                                     /\ book[j].instrument = sym
                                     /\ book[j].status = "WORKING"
                                     /\ book[j].is_buy = is_buy}}

\* Claim C22: the market price of an instrument that is not settled is
\* (bid + ask) / 2, ask the lowest limit price of the WORKING sell orders
\* (max_price without one), bid the highest limit price of the WORKING buy
\* orders (min_price without one), for every book; the market price of a
\* settled instrument is its close_price.  Both sides are doubled.
C22_MktPrice ==
    req.op = "mkt_price" =>
        LET instr == Instrument(req.symbol)
            asks == RefLimits(req.book, req.symbol, FALSE)
            bids == RefLimits(req.book, req.symbol, TRUE)
            ask == IF asks = {} THEN instr.max_price
                   ELSE CHOOSE p \in asks : \A q \in asks : p <= q
            bid == IF bids = {} THEN instr.min_price
                   ELSE CHOOSE p \in bids : \A q \in bids : p >= q
        IN resp = IF instr.settled THEN 2 * instr.close_price ELSE bid + ask

\* The valid trades of a symbol with the sign they have for a trader: +1 as
\* the buyer, -1 as the seller, both for a trade with oneself.
RefSign(db, trade, trader) ==
    (IF db[trade.buy_order].trader = trader THEN 1 ELSE 0)
    - (IF db[trade.sell_order].trader = trader THEN 1 ELSE 0)

RefValid(tr, sym) ==
    {k \in 1..Len(tr) : tr[k].instrument = sym /\ tr[k].is_valid}

\* Claim C23: the position reported for a trader and an instrument is the sum
\* over the valid trades of sign x quantity x qty_mult, and the cost basis
\* the sum of sign x quantity x qty_mult x price x price_mult; invalid
\* trades add nothing.
C23_Positions ==
    req.op = "positions" =>
        \A u \in Traders : \A s \in DOMAIN resp.positions[u] :
            LET ks == RefValid(req.trades, s)
                instr == Instrument(s)
            IN /\ resp.positions[u][s].position
                    = SumOver([k \in ks |-> RefSign(req.db, req.trades[k], u)
                                  * req.trades[k].quantity * instr.qty_mult],
                              ks)
               /\ resp.positions[u][s].cost_basis
                    = SumOver([k \in ks |-> RefSign(req.db, req.trades[k], u)
                                  * req.trades[k].quantity * instr.qty_mult
                                  * req.trades[k].price * instr.price_mult],
                              ks)

\* Claim C24: the crash risk of every position is <= 0; for a live
\* instrument it is min(0, (min_price - market price) x price_mult x
\* position x qty_mult) for a long position and min(0, (max_price - market
\* price) x price_mult x position x qty_mult) for a short or flat one; for
\* an expired instrument it is 0.  Amounts are doubled.
C24_CrashRisk ==
    req.op = "positions" =>
        \A u \in Traders : \A s \in DOMAIN resp.positions[u] :
            LET p == resp.positions[u][s]
                instr == Instrument(s)
                bound == IF p.position > 0 THEN instr.min_price
                         ELSE instr.max_price
            IN /\ p.twice_crash_risk <= 0
               /\ p.twice_crash_risk
                    = IF instr.expiration > now
                      THEN Min(0, (2 * bound - p.twice_price) * instr.price_mult
                                  * p.position * instr.qty_mult)
                      ELSE 0

\* A long position in a live instrument reported with a crash risk below 0,
\* and a position in the expired instrument.
C24_Witness ==
    /\ req.op = "positions"
    /\ \E u \in Traders :
          /\ "PAST" \in DOMAIN resp.positions[u]
          /\ resp.positions[u]["PAST"].position # 0
          /\ \E s \in DOMAIN resp.positions[u] :
                /\ Instrument(s).expiration > now
                /\ resp.positions[u][s].position > 0
                /\ resp.positions[u][s].twice_crash_risk < 0

\* The traders with a valid trade, as buyer or as seller.
RefTraders(db, tr) ==
    {u \in Traders : \E k \in 1..Len(tr) :
        /\ tr[k].is_valid
        /\ u \in {db[tr[k].buy_order].trader, db[tr[k].sell_order].trader}}

\* Claim C25: the leaderboard lists every trader with a valid trade exactly
\* once, with the PnL summed over all instruments, in descending order of
\* PnL, ranked 1..n in that order, and traders with the same PnL in the
\* order of their usernames.
C25_Leaderboard ==
    req.op = "positions" =>
        LET lb == resp.leaderboard
        IN /\ {lb[i].username : i \in 1..Len(lb)} = RefTraders(req.db, req.trades)
           /\ Len(lb) = Cardinality(RefTraders(req.db, req.trades))
           /\ \A i \in 1..Len(lb) :
                 /\ lb[i].rank = i
                 /\ lb[i].twice_pnl
                      = SumOver([s \in DOMAIN resp.positions[lb[i].username] |->
                                   resp.positions[lb[i].username][s].twice_pnl],
                                DOMAIN resp.positions[lb[i].username])
           /\ \A i \in 1..(Len(lb) - 1) :
                 /\ lb[i].twice_pnl >= lb[i + 1].twice_pnl
                 /\ lb[i].twice_pnl = lb[i + 1].twice_pnl
                      => UsernameOrder(lb[i].username)
                           < UsernameOrder(lb[i + 1].username)

\* Two traders of different PnL on the leaderboard, the first with
\* positions in two instruments.
C25_Witness ==
    /\ req.op = "positions"
    /\ Len(resp.leaderboard) = 2
    /\ resp.leaderboard[1].twice_pnl > resp.leaderboard[2].twice_pnl
    /\ Cardinality(DOMAIN resp.positions[resp.leaderboard[1].username]) = 2

\* The trades a step booked against the resting order i.
NewFillsOf(i) ==
    {k \in NewTradeIds : RestingOf(Incoming, trades'[k]) = i}

\* Claim C26: a fill that takes the displayed slice of a resting order to 0
\* while the order is not filled up refills the slice to min(max_show_size,
\* quantity - filled_quantity) and sets priority_time to the time of the
\* fill, later than the priority_time before; a fill that leaves a slice
\* leaves priority_time as it is.  An order filled several times by one
\* submission was replenished in between, and its priority_time is later
\* than before.
C26_Replenishment ==
    [][IsSubmission =>
        \A i \in 1..Len(orders) :
          /\ Cardinality(NewFillsOf(i)) = 1 =>
               LET qty == trades'[CHOOSE k \in NewFillsOf(i) : TRUE].quantity
               IN /\ orders'[i].filled_quantity
                       = orders[i].filled_quantity + qty
                  /\ IF orders[i].curr_slice - qty = 0
                     THEN /\ orders'[i].curr_slice
                               = Min(orders[i].max_show_size,
                                     orders[i].quantity
                                       - orders'[i].filled_quantity)
                          /\ orders'[i].priority_time > orders[i].priority_time
                          /\ orders'[i].priority_time > now
                          /\ orders'[i].priority_time <= now'
                     ELSE /\ orders'[i].curr_slice = orders[i].curr_slice - qty
                          /\ orders'[i].priority_time = orders[i].priority_time
          /\ Cardinality(NewFillsOf(i)) > 1 =>
               /\ orders'[i].priority_time > orders[i].priority_time
               /\ orders'[i].priority_time <= now'
          /\ NewFillsOf(i) = {} => orders'[i] = orders[i]
      ]_vars

\* A resting iceberg order that was filled once, by a trade that took its
\* whole displayed slice, and shows its next slice with a later
\* priority_time.
C26_Witness ==
    \E i \in 1..Len(orders) :
        /\ orders[i].status = "WORKING"
        /\ orders[i].quantity = 2
        /\ orders[i].max_show_size = 1
        /\ orders[i].filled_quantity = 1
        /\ orders[i].curr_slice = 1
        /\ orders[i].priority_time > orders[i].begin_time
        /\ \E k \in 1..Len(trades) :
              /\ TradesOf(trades, i) = {k}
              /\ trades[k].quantity = 1
              /\ i = IF trades[k].is_buyer_taker THEN trades[k].sell_order
                     ELSE trades[k].buy_order

C28_OwnSliceSet ==
    [][(IsSubmission /\ Incoming.status = "WORKING") =>
          Incoming.curr_slice
            = Min(Incoming.max_show_size,
                  Incoming.quantity - Incoming.filled_quantity)]_vars

\* Claim C29: after every completed operation of a sequence of serialized
\* submissions and cancellations every order has 0 <= curr_slice <=
\* max_show_size and curr_slice <= quantity - filled_quantity, every WORKING
\* order has filled_quantity < quantity and every COMPLETED order has
\* filled_quantity = quantity.
C29_OrderInvariants ==
    \A i \in 1..Len(orders) :
        /\ 0 <= orders[i].curr_slice
        /\ orders[i].curr_slice <= orders[i].max_show_size
        /\ orders[i].curr_slice
             <= orders[i].quantity - orders[i].filled_quantity
        /\ orders[i].status = "WORKING"
             => orders[i].filled_quantity < orders[i].quantity
        /\ orders[i].status = "COMPLETED"
             => orders[i].filled_quantity = orders[i].quantity

\* Claim C30: across a sequence of serialized submissions and cancellations
\* the filled_quantity of an order never decreases, and once an order is
\* CANCELED its filled_quantity stays as it is and no trade booked later
\* names it.
C30_FilledMonotone ==
    [][\A i \in 1..Len(orders) :
          /\ orders'[i].filled_quantity >= orders[i].filled_quantity
          /\ orders[i].status = "CANCELED"
               => /\ orders'[i].filled_quantity = orders[i].filled_quantity
                  /\ \A k \in NewTradeIds :
                        trades'[k].buy_order # i /\ trades'[k].sell_order # i
      ]_vars

\* A step that saved an order without matching it: a cancel, or the creation
\* of an order that is not WORKING.
SavesUnmatched(r) ==
    r.op = "cancel" \/ (r.op = "create" /\ r.status # "WORKING")

\* C31: only the creation of a WORKING order is matched: a cancel and the
\* creation of an order as COMPLETED or CANCELED book no trade, leave every
\* trade as it was and change no order but the one saved, of which a cancel
\* changes the status only.
C31_OnlyNewWorkingMatched ==
    [][SavesUnmatched(req') =>
         /\ trades' = trades
         /\ \A i \in 1..Len(orders) :
              IF req'.op = "cancel" /\ i = req'.id
              THEN orders'[i] = [orders[i] EXCEPT !.status = "CANCELED"]
              ELSE orders'[i] = orders[i]
      ]_vars

\* An order was created as COMPLETED at a price that crosses a WORKING
\* order, which was then canceled: nothing traded.
C31_Witness ==
    /\ req.op = "cancel"
    /\ trades = <<>>
    /\ \E i, j \in 1..Len(orders) :
         /\ i < j
         /\ req.id = i
         /\ orders[i].status = "CANCELED"
         /\ orders[j].status = "COMPLETED"
         /\ Crosses(orders[j], orders[i])


\* C32: the store never holds an order whose filled_quantity differs from
\* the sum of the quantities of the trades that reference it: the writes of
\* a fill reach the store together.
C32_FillWritesTogether ==
    \A i \in 1..Len(orders) :
       orders[i].filled_quantity = TradedQty(trades, i)


\* The instrument of command r: the symbol of an order, the instrument of
\* the order a cancel names.
CommandSymbol(r) ==
    IF r.op = "order" THEN r.symbol
    ELSE IF CancelHits(r) THEN orders[r.id].instrument
    ELSE "none"

\* C33: an order or a cancel in one instrument leaves the orders, the
\* trades and the depth ladder of every other instrument as they were, and
\* what it adds is of its own instrument.
C33_InstrumentsIndependent ==
    [][req'.op \in {"order", "cancel"} =>
         /\ \A i \in 1..Len(orders) :
              orders[i].instrument # CommandSymbol(req') =>
                 orders'[i] = orders[i]
         /\ \A i \in (Len(orders) + 1)..Len(orders') :
              orders'[i].instrument = CommandSymbol(req')
         /\ \A k \in 1..Len(trades) :
              trades[k].instrument # CommandSymbol(req') =>
                 trades'[k] = trades[k]
         /\ \A k \in NewTradeIds :
              trades'[k].instrument = CommandSymbol(req')
         /\ \A sym \in MultiSymbols \ {CommandSymbol(req')} :
              get_order_book_data(orders', sym, now')
                = get_order_book_data(orders, sym, now')
      ]_vars

\* An order came to rest in one instrument at a price that crosses a
\* resting order of the other instrument, whose book had traded before.
C33_Witness ==
    /\ req.op = "order"
    /\ Len(orders) = MaxMultiOrders
    /\ \E i \in 1..(Len(orders) - 1) :
         LET inc == orders[Len(orders)]
             r == orders[i]
         IN /\ inc.instrument = req.symbol
            /\ r.instrument # inc.instrument
            /\ r.is_buy # inc.is_buy
            /\ IF inc.is_buy THEN r.limit_price <= inc.limit_price
                             ELSE r.limit_price >= inc.limit_price
            /\ r.status = "WORKING" /\ inc.status = "WORKING"
            /\ inc.filled_quantity = 0
            /\ r.filled_quantity > 0
            /\ get_order_book_data(orders, r.instrument, now) # <<>>


\* Order o is WORKING and its expiration lies before the time t.
ExpiredAt(o, t) == o.status = "WORKING" /\ o.expiration < t

\* C34: a WORKING order whose expiration lies before the time of a
\* submission's matching is no candidate of it: the submission leaves it as
\* it was, books no trade with it and ends without an error.
C34_ExpiredExcluded ==
    [][IsSubmission =>
         \A i \in 1..Len(orders) :
            ExpiredAt(orders[i], now + 1) =>
               /\ orders'[i] = orders[i]
               /\ \A k \in NewTradeIds : RestingOf(Incoming, trades'[k]) # i
               /\ resp' = "Success"
      ]_vars

\* The last order traded with a resting order although an expired WORKING
\* order, still unfilled, was first in line at a price it crosses too.
C34_Witness ==
    /\ resp = "Success"
    /\ Len(orders) = MaxExpiryOrders
    /\ \E i, j \in 1..(Len(orders) - 1) :
         LET inc == orders[Len(orders)]
         IN /\ i < j
            /\ ExpiredAt(orders[i], inc.begin_time + 1)
            /\ orders[i].filled_quantity = 0
            /\ Crosses(inc, orders[i])
            /\ orders[i].limit_price = orders[j].limit_price
            /\ orders[j].filled_quantity > 0
            /\ inc.filled_quantity > 0
            /\ trades[Len(trades)].buy_order = Len(orders)
                 \/ trades[Len(trades)].sell_order = Len(orders)


\* Every order of the book was sent with a positive quantity and a positive
\* max_show_size.
PositiveOrders ==
    \A i \in 1..Len(orders) :
       orders[i].quantity > 0 /\ orders[i].max_show_size > 0

\* Order o is WORKING and not expired at time t.
Live(o, t) == o.status = "WORKING" /\ o.expiration >= t

\* C35: after every submission that was answered Success, in a run of
\* orders with positive quantity and max_show_size, no instrument has a
\* WORKING, unexpired buy priced at or above a WORKING, unexpired sell.
C35_BookUncrossed ==
    (resp = "Success" /\ PositiveOrders) =>
       \A i, j \in 1..Len(orders) :
          ~(/\ Live(orders[i], now) /\ Live(orders[j], now)
            /\ orders[i].instrument = orders[j].instrument
            /\ orders[i].is_buy /\ ~orders[j].is_buy
            /\ orders[i].limit_price >= orders[j].limit_price)


\* C36: when every order was sent with a positive quantity, whatever its
\* max_show_size, every trade has a strictly positive quantity.
C36_TradesPositive ==
    (\A i \in 1..Len(orders) : orders[i].quantity > 0) =>
       \A k \in 1..Len(trades) : trades[k].quantity > 0


\* No row of the ladder with a bid size is priced at or above a row with an
\* ask size, the row itself included.
UncrossedLadder(ladder) ==
    \A a, b \in 1..Len(ladder) :
       ~(ladder[a][1] # 0 /\ ladder[b][3] # 0 /\ ladder[a][2] >= ladder[b][2])

\* C37: every Depth notification of an operation, those of the saves of the
\* resting orders during the matching included, shows an uncrossed ladder
\* (stated for orders with positive quantity and max_show_size).
C37_DepthNotesUncrossed ==
    PositiveOrders =>
       \A n \in 1..Len(sent) :
          sent[n].type = "Depth" => UncrossedLadder(sent[n].ladder)


\* credit_limit + pnl + crash_risk of a trader, doubled.
TwiceCreditLeft(trader) ==
    TwiceCreditLimit(trader)
    + get_my_pnl(orders, trades, now, trader).twice_pnl
    + get_my_pnl(orders, trades, now, trader).twice_crash_risk

\* C38: after the submissions the credit gate admitted, all of a positive
\* quantity, and their fills, credit_limit + pnl + crash_risk is positive
\* for every trader.
C38_CreditKept ==
    (\A i \in 1..Len(orders) : orders[i].quantity > 0) =>
       \A trader \in Traders : TwiceCreditLeft(trader) > 0


\* The entries of get_all_positions for the symbol sym.
EntriesOf(all, sym) == {e \in DOMAIN all : e[2] = sym}

\* C39: in every instrument the positions that get_all_positions reports
\* for the traders sum to zero, and so do the cost bases and the PnLs, also
\* with trades whose buyer is their seller.
C39_PositionsSumToZero ==
    req.op = "positions" =>
       \A sym \in PosSymbols :
          LET all == resp.all_positions
              es == EntriesOf(all, sym)
          IN /\ SumOver([e \in es |-> all[e].position], es) = 0
             /\ SumOver([e \in es |-> all[e].cost_basis], es) = 0
             /\ SumOver([e \in es |-> all[e].twice_pnl], es) = 0

\* In one instrument a trader bought from the other and traded with
\* themself, both trades valid, and holds a position with a PnL.
C39_Witness ==
    /\ req.op = "positions"
    /\ \E j, k \in 1..Len(req.trades) :
         /\ req.trades[j].is_valid /\ req.trades[k].is_valid
         /\ req.trades[j].instrument = req.trades[k].instrument
         /\ req.db[req.trades[j].buy_order].trader
              = req.db[req.trades[j].sell_order].trader
         /\ req.db[req.trades[k].buy_order].trader
              # req.db[req.trades[k].sell_order].trader
         /\ \E e \in EntriesOf(resp.all_positions, req.trades[k].instrument) :
              /\ resp.all_positions[e].position # 0
              /\ resp.all_positions[e].twice_pnl # 0
              /\ resp.all_positions[e].cost_basis # 0

====
